---- MODULE Spec2Model ----
(***************************************************************************)
(* A model of the ibp-monitor health-monitoring pipeline:                  *)
(*   - the check executor  (src/workers/f-check-service.js, src/lib/dns.js)*)
(*   - the alerting engine (src/unnamed/part_000, class AlertsEngine)      *)
(*   - the gossip dispatcher (src/monitor/lib/MessageHandler.js)           *)
(* Every asynchronous function is cut into one action per stretch of code  *)
(* between two suspension points (await).                                  *)
(***************************************************************************)
EXTENDS Integers, Sequences, FiniteSets, TLC

VARIABLES
    \* ---- check executor ----
    jobData,        \* job.data of each check job
    pc,             \* where each checkService invocation stands
    dnsTable,       \* evil-dns' process-wide list of overrides, oldest first
    retriesLeft,    \* retryFn's retriesLeft parameter of the running call
    invocations,    \* how many times retryFn has called fn(job)
    delays,         \* how many inter-attempt timers have elapsed
    outcomes,       \* how each finished call of fn(job) ended
    error,          \* the error retryFn's catch block holds
    providerOpen,   \* transports (WsProvider) connected and not disconnected
    apiOpen,        \* protocol clients (ApiPromise) created and not disconnected
    resolved,       \* the address the running attempt's transport connected to
    fnResult,       \* what the last call of fn(job) returned
    result,         \* what retryFn returned to checkService
    dnsAdds,        \* edns.add calls made by each invocation
    dnsRemoves,     \* edns.remove calls made by each invocation
    \* ---- alerting engine ----
    enabled,        \* cfg.alertsEngine.enabled
    now,            \* the wall clock, in milliseconds
    healthChecks,   \* the datastore's HealthCheck rows, in order of creation
    queue,          \* the jobs added to the alerts queue, oldest first
    runPc,          \* where the AlertsEngine.run call in progress stands
    runCurrent,     \* its argument currentHealthCheck
    runPrevious,    \* its previousHealthCheck
    runOther,       \* its otherMemberHealthCheck
    runJobs,        \* the jobs it added to the queue
    runs,           \* calls of AlertsEngine.run so far
    queries,        \* HealthCheck.findOne calls so far
    \* ---- gossip dispatcher ----
    monitors,       \* the datastore's Monitor rows, in order of creation
    services,       \* the datastore's Service rows
    peers,          \* the datastore's Peer rows
    hPc,            \* where each handler invocation stands
    hEvt,           \* the event each handler invocation was called with
    hServices,      \* handleMessage's local `services`
    hIndex,         \* handleMessage's loop variable i (1-based)
    hOps,           \* the datastore calls each handler invocation has made
    pubPc,          \* where the publishServices call stands
    pubList,        \* its argument `services`
    pubIndex,       \* its loop variable i (1-based)
    published,      \* the pubsub.publish calls it has made, oldest first
    \* ---- archive probe of performCheck ----
    probeInput,     \* finalizedBlock and the value Math.random() returned
    probeBlock      \* randBlockNumber, once computed

execVars == <<jobData, pc, dnsTable, retriesLeft, invocations, delays, outcomes,
              error, providerOpen, apiOpen, resolved, fnResult, result,
              dnsAdds, dnsRemoves>>

alertVars == <<enabled, now, healthChecks, queue, runPc, runCurrent, runPrevious,
               runOther, runJobs, runs, queries>>

gossipVars == <<monitors, services, peers, hPc, hEvt, hServices, hIndex, hOps,
                pubPc, pubList, pubIndex, published>>

probeVars == <<probeInput, probeBlock>>

nonExecVars == <<alertVars, gossipVars, probeVars>>
nonAlertVars == <<execVars, gossipVars, probeVars>>
nonGossipVars == <<execVars, alertVars, probeVars>>
nonProbeVars == <<execVars, alertVars, gossipVars>>

vars == <<execVars, alertVars, gossipVars, probeVars>>

(***************************************************************************)
(* Values                                                                  *)
(***************************************************************************)

\* JavaScript's undefined / null, and "no value yet"
Undefined == [tag |-> "undefined"]
NoResult == [status |-> "none"]
NoError == [name |-> "none", message |-> "none"]
NoAddress == "none"

\* config.performance.sla
SLA == 500

\* checkService's arguments to retryFn
RetryBudget == 3

Jobs == {"jobA", "jobB"}

\* job payloads: two members served under the same subdomain, and one member
\* of another subdomain
JobInputs ==
    { [subdomain |-> "rpc-test", monitorId |-> "mon1",
       member |-> [id |-> "m1", serviceIpAddress |-> "10.0.0.5"],
       service |-> [id |-> "s1", chainId |-> "polkadot"]],
      [subdomain |-> "rpc-test", monitorId |-> "mon1",
       member |-> [id |-> "m2", serviceIpAddress |-> "10.0.0.6"],
       service |-> [id |-> "s1", chainId |-> "polkadot"]],
      [subdomain |-> "sys-test", monitorId |-> "mon1",
       member |-> [id |-> "m1", serviceIpAddress |-> "10.0.0.5"],
       service |-> [id |-> "s2", chainId |-> "kusama"]] }

\* what the public resolver answers for a name that has no override
PublicAddress == "192.0.2.1"

\* response times of the timed system.health() probe, around the SLA
Timings == {SLA - 1, SLA, SLA + 1}

\* what the checked node reports: best block and finalized block
ChainFacts == { [currentBlock |-> 21, finalizedBlock |-> 1],
                [currentBlock |-> 20, finalizedBlock |-> 1] }

\* error.name of what an attempt can throw; only "RpcError" is not retried
TransientNames == {"Error"}
ErrorNames == TransientNames \cup {"RpcError"}

(***************************************************************************)
(* src/lib/dns.js and the copies in src/workers/f-check-service.js         *)
(***************************************************************************)

getDomain(subdomain) == <<subdomain, "dotters.network">>

getEndpoint(subdomain, chain) == <<"wss", getDomain(subdomain), chain>>

\* edns.add(domain, ip): appends an override
ednsAdd(table, domain, ip) == Append(table, [domain |-> domain, ip |-> ip])

\* edns.remove(domain, ip): drops every override of that domain and ip
ednsRemove(table, domain, ip) ==
    SelectSeq(table, LAMBDA e : ~(e.domain = domain /\ e.ip = ip))


\* a variant of lookup that answers with the oldest override of any domain
lookupAnyDomain(table, domain) ==
    IF table = <<>> THEN PublicAddress ELSE Head(table).ip

\* dns.lookup as patched by evil-dns: the first override of the domain wins,
\* and the public resolver answers when there is none
lookup(table, domain) ==
    LET hits == SelectSeq(table, LAMBDA e : e.domain = domain)
    IN  IF hits = <<>> THEN PublicAddress ELSE Head(hits).ip

Installed(table, domain, ip) ==
    \E i \in 1..Len(table) : table[i].domain = domain /\ table[i].ip = ip

(***************************************************************************)
(* Results (src/workers/f-check-service.js)                                *)
(***************************************************************************)


\* a variant of performCheckResult that reports every completed check as a
\* success
performCheckResultAlwaysSuccess(data, timing, facts) ==
    [ monitorId |-> data.monitorId,
      serviceId |-> data.service.id,
      memberId  |-> data.member.id,
      source    |-> "check",
      status    |-> "success",
      record    |-> [ endpoint |-> getEndpoint(data.subdomain, data.service.chainId),
                      ipAddress |-> data.member.serviceIpAddress,
                      syncState |-> [currentBlock |-> facts.currentBlock],
                      finalizedBlock |-> facts.finalizedBlock,
                      error |-> Undefined,
                      performance |-> timing ] ]

\* the object performCheck returns
performCheckResult(data, timing, facts) ==
    [ monitorId |-> data.monitorId,
      serviceId |-> data.service.id,
      memberId  |-> data.member.id,
      source    |-> "check",
      status    |-> IF timing > SLA THEN "warning" ELSE "success",
      record    |-> [ endpoint |-> getEndpoint(data.subdomain, data.service.chainId),
                      ipAddress |-> data.member.serviceIpAddress,
                      syncState |-> [currentBlock |-> facts.currentBlock],
                      finalizedBlock |-> facts.finalizedBlock,
                      error |-> Undefined,
                      performance |-> timing ] ]


\* a variant of performCheckError that reports the failure as a warning
performCheckErrorAsWarning(err, data) ==
    [ monitorId |-> data.monitorId,
      serviceId |-> data.service.id,
      memberId  |-> data.member.id,
      source    |-> "check",
      status    |-> "warning",
      record    |-> [ endpoint |-> getEndpoint(data.subdomain, data.service.chainId),
                      ipAddress |-> data.member.serviceIpAddress,
                      syncState |-> Undefined,
                      finalizedBlock |-> Undefined,
                      error |-> [name |-> err.name, message |-> err.message],
                      performance |-> -1 ] ]

\* the object performCheckError returns
performCheckError(err, data) ==
    [ monitorId |-> data.monitorId,
      serviceId |-> data.service.id,
      memberId  |-> data.member.id,
      source    |-> "check",
      status    |-> "error",
      record    |-> [ endpoint |-> getEndpoint(data.subdomain, data.service.chainId),
                      ipAddress |-> data.member.serviceIpAddress,
                      syncState |-> Undefined,
                      finalizedBlock |-> Undefined,
                      error |-> [name |-> err.name, message |-> err.message],
                      performance |-> -1 ] ]

(***************************************************************************)
(* checkService / retryFn / performCheck, one action per stretch of code   *)
(***************************************************************************)

Domain(j) == getDomain(jobData[j].subdomain)
Ip(j) == jobData[j].member.serviceIpAddress

\* checkService lines 201-204, setDNS: edns.add, then the lookup that confirms
\* it; a lookup error rejects setDNS and with it checkService
SetDNS(j, err) ==
    /\ pc[j] = "queued"
    /\ dnsTable' = ednsAdd(dnsTable, Domain(j), Ip(j))
    /\ dnsAdds' = [dnsAdds EXCEPT ![j] = @ + 1]
    /\ pc' = [pc EXCEPT ![j] = IF err THEN "rejected" ELSE "attempt"]
    /\ UNCHANGED nonExecVars
    /\ UNCHANGED <<jobData, retriesLeft, invocations, delays, outcomes, error,
                   providerOpen, apiOpen, resolved, fnResult, result, dnsRemoves>>

\* retryFn lines 174-176 and performCheck lines 45-66: fn(job) is called, the
\* provider is created and provider.connect() is issued
BeginAttempt(j) ==
    /\ pc[j] = "attempt"
    /\ invocations' = [invocations EXCEPT ![j] = @ + 1]
    /\ resolved' = [resolved EXCEPT ![j] = NoAddress]
    /\ pc' = [pc EXCEPT ![j] = "connecting"]
    /\ UNCHANGED nonExecVars
    /\ UNCHANGED <<jobData, dnsTable, retriesLeft, delays, outcomes, error,
                   providerOpen, apiOpen, fnResult, result, dnsAdds, dnsRemoves>>

\* an attempt ends by throwing: control is in retryFn's catch block
Throw(j, name, message) ==
    /\ error' = [error EXCEPT ![j] = [name |-> name, message |-> message]]
    /\ outcomes' = [outcomes EXCEPT ![j] =
                      Append(@, IF name = "RpcError" THEN "rpc" ELSE "transient")]
    /\ pc' = [pc EXCEPT ![j] = "caught"]

\* performCheck lines 57-69: the transport resolves the endpoint's domain and
\* connects ('connected' resolves the promise)
ConnectOk(j) ==
    /\ pc[j] = "connecting"
    /\ resolved' = [resolved EXCEPT ![j] = lookup(dnsTable, Domain(j))]
    /\ providerOpen' = [providerOpen EXCEPT ![j] = @ + 1]
    /\ pc' = [pc EXCEPT ![j] = "handshake"]
    /\ UNCHANGED nonExecVars
    /\ UNCHANGED <<jobData, dnsTable, retriesLeft, invocations, delays, outcomes,
                   error, apiOpen, fnResult, result, dnsAdds, dnsRemoves>>

\* performCheck lines 58-62: the provider's 'error' event rejects the promise
ConnectFail(j) ==
    /\ pc[j] = "connecting"
    /\ Throw(j, "Error", "connect")
    /\ UNCHANGED nonExecVars
    /\ UNCHANGED <<jobData, dnsTable, retriesLeft, invocations, delays,
                   providerOpen, apiOpen, resolved, fnResult, result,
                   dnsAdds, dnsRemoves>>

\* performCheck lines 72-84: ApiPromise.create and api.isReady
HandshakeOk(j) ==
    /\ pc[j] = "handshake"
    /\ apiOpen' = [apiOpen EXCEPT ![j] = @ + 1]
    /\ pc' = [pc EXCEPT ![j] = "gathering"]
    /\ UNCHANGED nonExecVars
    /\ UNCHANGED <<jobData, dnsTable, retriesLeft, invocations, delays, outcomes,
                   error, providerOpen, resolved, fnResult, result,
                   dnsAdds, dnsRemoves>>

\* performCheck line 72: ApiPromise.create throws (throwOnConnect); the
\* connected transport is left as it is
HandshakeFail(j, name) ==
    /\ pc[j] = "handshake"
    /\ Throw(j, name, "handshake")
    /\ UNCHANGED nonExecVars
    /\ UNCHANGED <<jobData, dnsTable, retriesLeft, invocations, delays,
                   providerOpen, apiOpen, resolved, fnResult, result,
                   dnsAdds, dnsRemoves>>

\* performCheck lines 87-106: the RPC queries, the timed probe among them
GatherOk(j, timing, facts) ==
    /\ pc[j] = "gathering"
    /\ fnResult' = [fnResult EXCEPT ![j] =
                      performCheckResult(jobData[j], timing, facts)]
    /\ pc' = [pc EXCEPT ![j] = "teardown"]
    /\ UNCHANGED nonExecVars
    /\ UNCHANGED <<jobData, dnsTable, retriesLeft, invocations, delays, outcomes,
                   error, providerOpen, apiOpen, resolved, result,
                   dnsAdds, dnsRemoves>>

\* performCheck lines 87-106: one of the RPC queries rejects. handlerRan: the
\* api 'error' handler of lines 74-82 ran and disconnected the transport
GatherFail(j, name, handlerRan) ==
    /\ pc[j] = "gathering"
    /\ Throw(j, name, "query")
    /\ providerOpen' = [providerOpen EXCEPT ![j] = IF handlerRan THEN @ - 1 ELSE @]
    /\ UNCHANGED nonExecVars
    /\ UNCHANGED <<jobData, dnsTable, retriesLeft, invocations, delays,
                   apiOpen, resolved, fnResult, result, dnsAdds, dnsRemoves>>

\* performCheck lines 109-146 and retryFn line 176: both disconnects, the
\* result is built and retryFn returns it
Teardown(j) ==
    /\ pc[j] = "teardown"
    /\ apiOpen' = [apiOpen EXCEPT ![j] = @ - 1]
    /\ providerOpen' = [providerOpen EXCEPT ![j] = @ - 1]
    /\ outcomes' = [outcomes EXCEPT ![j] = Append(@, "ok")]
    /\ result' = [result EXCEPT ![j] = fnResult[j]]
    /\ pc' = [pc EXCEPT ![j] = "clearDNS"]
    /\ UNCHANGED nonExecVars
    /\ UNCHANGED <<jobData, dnsTable, retriesLeft, invocations, delays, error,
                   resolved, fnResult, dnsAdds, dnsRemoves>>


\* a variant of NotRetryable that matches another spelling of the name
NotRetryableOtherName(err) == err.name = "RPCError"

\* retryFn line 181: the error kind that is not retried
NotRetryable(err) == err.name = "RpcError"


\* a variant of RetriesRemain that gives up one attempt early
RetriesRemainOneLess(n) == n > 1

\* retryFn line 183: attempts remain
RetriesRemain(n) == n # 0


\* a variant of Catch whose retry does not wait for the timer
CatchNoWait(j) ==
    /\ pc[j] = "caught"
    /\ IF (error[j].name = "RpcError" \/ retriesLeft[j] = 0)
         THEN /\ result' = [result EXCEPT ![j] = performCheckError(error[j], jobData[j])]
              /\ pc' = [pc EXCEPT ![j] = "clearDNS"]
              /\ UNCHANGED retriesLeft
         ELSE /\ pc' = [pc EXCEPT ![j] = "attempt"]
              /\ retriesLeft' = [retriesLeft EXCEPT ![j] = @ - 1]
              /\ UNCHANGED result
    /\ UNCHANGED nonExecVars
    /\ UNCHANGED <<jobData, dnsTable, invocations, delays, outcomes,
                   error, providerOpen, apiOpen, resolved, fnResult,
                   dnsAdds, dnsRemoves>>

\* retryFn lines 177-190: the catch block
Catch(j) ==
    /\ pc[j] = "caught"
    /\ IF NotRetryable(error[j])
         THEN /\ result' = [result EXCEPT ![j] = performCheckError(error[j], jobData[j])]
              /\ pc' = [pc EXCEPT ![j] = "clearDNS"]
         ELSE IF RetriesRemain(retriesLeft[j])
              THEN /\ pc' = [pc EXCEPT ![j] = "sleeping"]
                   /\ UNCHANGED result
              ELSE /\ result' = [result EXCEPT ![j] = performCheckError(error[j], jobData[j])]
                   /\ pc' = [pc EXCEPT ![j] = "clearDNS"]
    /\ UNCHANGED nonExecVars
    /\ UNCHANGED <<jobData, dnsTable, retriesLeft, invocations, delays, outcomes,
                   error, providerOpen, apiOpen, resolved, fnResult,
                   dnsAdds, dnsRemoves>>

\* retryFn line 186: the argument of the recursive call
NextRetriesLeft(n) == n - 1

\* retryFn lines 185-186: the timer fires and retryFn calls itself
Sleep(j) ==
    /\ pc[j] = "sleeping"
    /\ delays' = [delays EXCEPT ![j] = @ + 1]
    /\ retriesLeft' = [retriesLeft EXCEPT ![j] = NextRetriesLeft(@)]
    /\ pc' = [pc EXCEPT ![j] = "attempt"]
    /\ UNCHANGED nonExecVars
    /\ UNCHANGED <<jobData, dnsTable, invocations, outcomes, error, providerOpen,
                   apiOpen, resolved, fnResult, result, dnsAdds, dnsRemoves>>

\* checkService lines 210-214, clearDNS: edns.remove, then the lookup; a
\* lookup error rejects clearDNS and with it checkService
ClearDNS(j, err) ==
    /\ pc[j] = "clearDNS"
    /\ dnsTable' = ednsRemove(dnsTable, Domain(j), Ip(j))
    /\ dnsRemoves' = [dnsRemoves EXCEPT ![j] = @ + 1]
    /\ pc' = [pc EXCEPT ![j] = IF err THEN "rejected" ELSE "done"]
    /\ UNCHANGED nonExecVars
    /\ UNCHANGED <<jobData, retriesLeft, invocations, delays, outcomes, error,
                   providerOpen, apiOpen, resolved, fnResult, result, dnsAdds>>

(***************************************************************************)
(* The alerting engine (src/unnamed/part_000, class AlertsEngine)          *)
(***************************************************************************)

\* bounds of the alerting model: rows the datastore holds, calls of run, and
\* the minutes the clock covers
MaxRows == 1
MaxHistory == 3
MaxRuns == 1
MaxMinutes == 2

\* what findOne resolves to when no row matches
Null == [tag |-> "null"]

ALERT_CODE_100 == 100
ALERT_CODE_101 == 101
ALERT_CODE_102 == 102
ALERT_CODE_103 == 103

SEVERITY_HIGH == "high"
SEVERITY_MEDIUM == "medium"
SEVERITY_LOW == "low"

\* cfg.alertsEngine.thresholds.blockDrift
BlockDriftThreshold == 20

\* the rows of `rows` whose index satisfies `where`, most recent first: findOne with
\* order createdAt DESC resolves to a row of the greatest createdAt among the
\* matching ones, or to null
findOne(rows, where) ==
    LET hits == {i \in 1..Len(rows) : where[i]}
    IN  IF hits = {} THEN {Null}
        ELSE {rows[i] : i \in {h \in hits :
                                 \A g \in hits : rows[g].createdAt <= rows[h].createdAt}}

\* run lines 52-63: same member and service, status success, created more
\* than 60 seconds before t
previousWhere(current, t, row) ==
    /\ row.memberId = current.memberId
    /\ row.serviceId = current.serviceId
    /\ row.status = "success"
    /\ row.createdAt < t - 60 * 1000

\* run lines 66-80: another member of the same service, status success,
\* created more than 60 seconds and less than 10 minutes before t
otherMemberWhere(current, t, row) ==
    /\ row.memberId # current.memberId
    /\ row.serviceId = current.serviceId
    /\ row.status = "success"
    /\ row.createdAt < t - 60 * 1000
    /\ row.createdAt > t - 10 * 60 * 1000


\* a variant of message100 that never reads record.error
message100AlwaysFallback(current) == <<"Error message not available">>

\* run line 85: the message of the code-100 job
message100(current) ==
    IF current.record # Undefined
    THEN IF current.record.error # Undefined
         THEN <<current.record.error.message>>
         ELSE <<"Error message not available">>
    ELSE <<"Error message not available">>

\* run lines 83-99
jobs100(current) ==
    IF current.status = "error"
    THEN << [ code |-> ALERT_CODE_100,
              severity |-> SEVERITY_HIGH,
              message |-> message100(current),
              memberId |-> current.memberId,
              serviceId |-> current.serviceId,
              healthCheckId |-> current.id,
              healthChecks |-> <<current>> ] >>
    ELSE <<>>


\* a variant of fires101 that does not compare with the other member
fires101NoOtherMember(current, previous, other) ==
    /\ previous # Null /\ other # Null
    /\ previous.status = "success" /\ current.status = "success"
    /\ other.status = "success"
    /\ previous.record.syncState # Undefined
    /\ current.record.syncState # Undefined
    /\ other.record.syncState # Undefined
    /\ previous.record.syncState.currentBlock = current.record.syncState.currentBlock

\* run lines 102-105: the four nested conditions of rule 101
fires101(current, previous, other) ==
    /\ previous # Null /\ other # Null
    /\ previous.status = "success" /\ current.status = "success"
    /\ other.status = "success"
    /\ previous.record.syncState # Undefined
    /\ current.record.syncState # Undefined
    /\ other.record.syncState # Undefined
    /\ previous.record.syncState.currentBlock = current.record.syncState.currentBlock
    /\ other.record.syncState.currentBlock # current.record.syncState.currentBlock

\* run lines 102-123
jobs101(current, previous, other) ==
    IF fires101(current, previous, other)
    THEN << [ code |-> ALERT_CODE_101,
              severity |-> SEVERITY_HIGH,
              message |-> <<"Best block is halted at block #",
                            current.record.syncState.currentBlock,
                            " since the last Health Check #", previous.id>>,
              memberId |-> current.memberId,
              serviceId |-> current.serviceId,
              healthCheckId |-> current.id,
              healthChecks |-> <<current, previous>> ] >>
    ELSE <<>>

\* run line 128
blockDrift(current) ==
    current.record.syncState.currentBlock - current.record.finalizedBlock


\* a variant of fires102 that needs the drift to exceed the threshold
fires102Strict(current) ==
    /\ current.status = "success"
    /\ current.record.syncState # Undefined
    /\ blockDrift(current) > BlockDriftThreshold

\* run lines 126-129
fires102(current) ==
    /\ current.status = "success"
    /\ current.record.syncState # Undefined
    /\ blockDrift(current) >= BlockDriftThreshold

\* run lines 126-146
jobs102(current) ==
    IF fires102(current)
    THEN << [ code |-> ALERT_CODE_102,
              severity |-> SEVERITY_MEDIUM,
              message |-> <<"Finalized block #", current.record.finalizedBlock,
                            " drifting by more than ", blockDrift(current),
                            " blocks">>,
              memberId |-> current.memberId,
              serviceId |-> current.serviceId,
              healthCheckId |-> current.id,
              healthChecks |-> <<current>> ] >>
    ELSE <<>>


\* a variant of fires103 that fires at the SLA itself
fires103AtSla(current) ==
    /\ current.status = "success"
    /\ current.record.performance >= SLA

\* run lines 149-150
fires103(current) ==
    /\ current.status = "success"
    /\ current.record.performance > SLA

\* run lines 149-166
jobs103(current) ==
    IF fires103(current)
    THEN << [ code |-> ALERT_CODE_103,
              severity |-> SEVERITY_LOW,
              message |-> <<"Service response time ", current.record.performance,
                            "ms is higher than expected">>,
              memberId |-> current.memberId,
              serviceId |-> current.serviceId,
              healthCheckId |-> current.id,
              healthChecks |-> <<current>> ] >>
    ELSE <<>>

\* a HealthCheck row is created from `input` (datastore.HealthCheck.create);
\* the datastore holds at most `limit` rows
Persist(input, limit) ==
    /\ Len(healthChecks) < limit
    /\ healthChecks' = Append(healthChecks,
          [ id |-> Len(healthChecks) + 1,
            memberId |-> input.memberId,
            serviceId |-> input.serviceId,
            status |-> input.status,
            createdAt |-> now,
            record |-> input.record ])
    /\ UNCHANGED <<enabled, now, queue, runPc, runCurrent, runPrevious, runOther,
                   runJobs, runs, queries>>
    /\ UNCHANGED nonAlertVars

\* time passes
Tick(d) ==
    /\ now + d <= MaxMinutes * 60 * 1000
    /\ now' = now + d
    /\ UNCHANGED <<enabled, healthChecks, queue, runPc, runCurrent, runPrevious,
                   runOther, runJobs, runs, queries>>
    /\ UNCHANGED nonAlertVars


\* a variant of RunDisabled that makes the first history query before returning
RunDisabledQuerying(i) ==
    /\ runPc = "idle" /\ runs < MaxRuns
    /\ i \in 1..Len(healthChecks)
    /\ ~enabled
    /\ runs' = runs + 1
    /\ queries' = queries + 1
    /\ UNCHANGED <<enabled, now, healthChecks, queue, runPc, runCurrent,
                   runPrevious, runOther, runJobs>>
    /\ UNCHANGED nonAlertVars

\* run lines 45-49: alerting is disabled, run returns at once
RunDisabled(i) ==
    /\ runPc = "idle" /\ runs < MaxRuns
    /\ i \in 1..Len(healthChecks)
    /\ ~enabled
    /\ runs' = runs + 1
    /\ UNCHANGED <<enabled, now, healthChecks, queue, runPc, runCurrent,
                   runPrevious, runOther, runJobs, queries>>
    /\ UNCHANGED nonAlertVars

\* run lines 45-63: run(healthChecks[i]) is called and the first query is made
RunQueryPrevious(i) ==
    /\ runPc = "idle" /\ runs < MaxRuns
    /\ i \in 1..Len(healthChecks)
    /\ enabled
    /\ runs' = runs + 1
    /\ runCurrent' = healthChecks[i]
    /\ \E p \in findOne(healthChecks,
                        [k \in 1..Len(healthChecks) |->
                           previousWhere(healthChecks[i], now, healthChecks[k])]) :
          runPrevious' = p
    /\ runOther' = Null
    /\ runJobs' = <<>>
    /\ queries' = queries + 1
    /\ runPc' = "previous"
    /\ UNCHANGED <<enabled, now, healthChecks, queue>>
    /\ UNCHANGED nonAlertVars

\* run lines 82-167: the four rules in the order of the code
alertJobs(current, previous, other) ==
    jobs100(current) \o jobs101(current, previous, other)
                     \o jobs102(current) \o jobs103(current)

\* run lines 66-167: the second query, then the rules, each adding its job to
\* the queue; run returns
RunEvaluate ==
    /\ runPc = "previous"
    /\ \E o \in findOne(healthChecks,
                        [k \in 1..Len(healthChecks) |->
                           otherMemberWhere(runCurrent, now, healthChecks[k])]) :
          /\ runOther' = o
          /\ runJobs' = alertJobs(runCurrent, runPrevious, o)
          /\ queue' = queue \o alertJobs(runCurrent, runPrevious, o)
    /\ queries' = queries + 1
    /\ runPc' = "idle"
    /\ UNCHANGED <<enabled, now, healthChecks, runCurrent, runPrevious, runs>>
    /\ UNCHANGED nonAlertVars

InitAlerts(flags) ==
    /\ enabled \in flags
    /\ now = 0
    /\ healthChecks = <<>>
    /\ queue = <<>>
    /\ runPc = "idle"
    /\ runCurrent = Null
    /\ runPrevious = Null
    /\ runOther = Null
    /\ runJobs = <<>>
    /\ runs = 0
    /\ queries = 0

(***************************************************************************)
(* The gossip dispatcher (src/monitor/lib/MessageHandler.js)               *)
(***************************************************************************)

\* handler invocations the event loop runs
MaxHandlers == 2

Handlers == 1..MaxHandlers

\* a string-typed field that is absent (JavaScript's undefined)
Absent == "undefined"

NoEvent == [kind |-> "none"]

PeerIds == {"P1", "P2"}

\* service descriptors: two services, and a descriptor of the first one that
\* carries no chainId
DescriptorA == [serviceUrl |-> "wss://a", chainId |-> "polkadot"]
DescriptorB == [serviceUrl |-> "wss://b", chainId |-> "kusama"]
DescriptorUrlOnly == [serviceUrl |-> "wss://a"]

\* JSON values
JsonNull == [json |-> "null"]
JsonArray(items) == [json |-> "array", items |-> items]
JsonObject(fields) == [json |-> "object", fields |-> fields]

\* message bytes: the text of a JSON value, or bytes that are not JSON
Malformed == [text |-> "malformed"]

\* uint8ArrayFromString(JSON.stringify(value))
JSONstringify(value) == [text |-> "json", value |-> value]

\* JSON.parse(uint8ArrayToString(data)) returns a value
parses(data) == data.text = "json"

\* the value JSON.parse(uint8ArrayToString(data)) returns
JSONparse(data) == data.value

\* handleMessage line 52: `JSON.parse(...) || []`, as the list of its elements
orEmpty(value) == IF value = JsonNull THEN <<>> ELSE value.items

\* the payloads of /ibp/services messages
ServiceLists == { <<>>, <<DescriptorA>>, <<DescriptorA, DescriptorB>>,
                  <<DescriptorUrlOnly>> }

ServicesPayloads ==
    {Malformed, JSONstringify(JsonNull)}
    \cup {JSONstringify(JsonArray(items)) : items \in ServiceLists}

\* the payloads of /ibp/healthCheck messages: results with and without level,
\* an object without serviceUrl, null, and bytes that are not JSON
HealthCheckObjects ==
    { [serviceUrl |-> "wss://a", level |-> "warning", status |-> "success"],
      [serviceUrl |-> "wss://a", level |-> Absent, status |-> "success"],
      [serviceUrl |-> Absent, level |-> Absent, status |-> Absent] }

HealthCheckPayloads ==
    {Malformed, JSONstringify(JsonNull)}
    \cup {JSONstringify(JsonObject(fields)) : fields \in HealthCheckObjects}

\* the columns of the three catalog tables and what a new row holds in them
MonitorColumns == [monitorId |-> Absent, services |-> Undefined]
ServiceColumns == [serviceUrl |-> Absent, chainId |-> Absent]
PeerColumns == [peerId |-> Absent, serviceUrl |-> Absent]

\* `row` with the fields of `model` written over it
Merge(row, model) ==
    [f \in DOMAIN row \cup DOMAIN model |->
        IF f \in DOMAIN model THEN model[f] ELSE row[f]]

Matches(row, model, key) == \A f \in key : row[f] = model[f]

\* the storage collaborator's upsert: the row of the model's key gets the
\* model's fields and keeps its others; without such a row one is created
upsert(table, key, columns, model) ==
    IF \E i \in 1..Len(table) : Matches(table[i], model, key)
    THEN [i \in 1..Len(table) |->
            IF Matches(table[i], model, key) THEN Merge(table[i], model)
            ELSE table[i]]
    ELSE Append(table, Merge(columns, model))

\* the storage collaborator's create: always a new row
create(table, model, t) ==
    Append(table, Merge([id |-> Len(table) + 1, createdAt |-> t], model))

\* handleDiscovery line 24 and handleMessage line 55
upsertMonitor(table, model) == upsert(table, {"monitorId"}, MonitorColumns, model)


\* a variant of upsertService that inserts a row for every announcement
upsertServiceAsCreate(table, model) == Append(table, Merge(ServiceColumns, model))

\* handleMessage line 63
upsertService(table, model) == upsert(table, {"serviceUrl"}, ServiceColumns, model)

\* handleMessage line 64
upsertPeer(table, model) ==
    upsert(table, {"peerId", "serviceUrl"}, PeerColumns, model)


\* a variant of createHealthCheck that keeps one row per sender and service
createHealthCheckAsUpsert(table, model, t) ==
    upsert(table, {"monitorId", "serviceUrl"},
           [id |-> Len(table) + 1, createdAt |-> t], model)

\* handleMessage line 83
createHealthCheck(table, model, t) == create(table, model, t)

\* handleDiscovery line 23
discoveryModel(id) == [monitorId |-> id]


\* a variant of monitorModel that carries no services snapshot
monitorModelNoServices(from, items) == [monitorId |-> from]

\* handleMessage lines 55-58
monitorModel(from, items) == [monitorId |-> from, services |-> JsonArray(items)]

\* handleMessage line 64
peerModel(from, model) == [peerId |-> from, serviceUrl |-> model.serviceUrl]

\* handleMessage lines 73-79
healthCheckModel(from, record) ==
    [ monitorId |-> from,
      serviceUrl |-> record.fields.serviceUrl,
      level |-> IF record.fields.level # Absent THEN record.fields.level ELSE "info",
      source |-> "gossip",
      record |-> record ]

Catalog == <<monitors, services, peers>>

\* a datastore call as a handler made it
StoreCall(table, model, fault) == [table |-> table, model |-> model, ok |-> ~fault]

\* the event loop calls handler invocations in the order of their numbers
Starts(h) ==
    /\ hPc[h] = "idle"
    /\ \A g \in Handlers : g < h => hPc[g] # "idle"

Ended(h) == hPc[h] \in {"done", "rejected"}


\* a variant of HandleDiscovery whose storage error is not caught
HandleDiscoveryUncaught(h, id, fault) ==
    /\ Starts(h)
    /\ hEvt' = [hEvt EXCEPT ![h] = [kind |-> "peer:discovery", id |-> id]]
    /\ hOps' = [hOps EXCEPT ![h] =
                  Append(@, StoreCall("Monitor", discoveryModel(id), fault))]
    /\ monitors' = IF fault THEN monitors
                   ELSE upsertMonitor(monitors, discoveryModel(id))
    /\ hPc' = [hPc EXCEPT ![h] = IF fault THEN "rejected" ELSE "done"]
    /\ UNCHANGED <<services, peers, hServices, hIndex, pubPc, pubList, pubIndex,
                   published>>
    /\ UNCHANGED nonGossipVars

\* handleDiscovery lines 20-30: the Monitor of the discovered peer is upserted
\* with its monitorId alone; a storage error is caught and logged
HandleDiscovery(h, id, fault) ==
    /\ Starts(h)
    /\ hEvt' = [hEvt EXCEPT ![h] = [kind |-> "peer:discovery", id |-> id]]
    /\ hOps' = [hOps EXCEPT ![h] =
                  Append(@, StoreCall("Monitor", discoveryModel(id), fault))]
    /\ monitors' = IF fault THEN monitors
                   ELSE upsertMonitor(monitors, discoveryModel(id))
    /\ hPc' = [hPc EXCEPT ![h] = "done"]
    /\ UNCHANGED <<services, peers, hServices, hIndex, pubPc, pubList, pubIndex,
                   published>>
    /\ UNCHANGED nonGossipVars

\* handleMessage lines 48-58, topic /ibp/services: the payload is parsed and
\* the sender's Monitor is upserted with the parsed array; a parse error or a
\* storage error rejects handleMessage
ServicesReceived(h, from, data, fault) ==
    /\ Starts(h)
    /\ hEvt' = [hEvt EXCEPT ![h] = [kind |-> "message", topic |-> "/ibp/services",
                                     from |-> from, data |-> data]]
    /\ IF ~parses(data)
       THEN /\ hPc' = [hPc EXCEPT ![h] = "rejected"]
            /\ UNCHANGED <<monitors, hServices, hIndex, hOps>>
       ELSE LET items == orEmpty(JSONparse(data))
            IN  /\ hServices' = [hServices EXCEPT ![h] = items]
                /\ hIndex' = [hIndex EXCEPT ![h] = 1]
                /\ hOps' = [hOps EXCEPT ![h] =
                      Append(@, StoreCall("Monitor", monitorModel(from, items), fault))]
                /\ monitors' = IF fault THEN monitors
                               ELSE upsertMonitor(monitors, monitorModel(from, items))
                /\ hPc' = [hPc EXCEPT ![h] = IF fault THEN "rejected"
                                             ELSE IF items = <<>> THEN "done"
                                             ELSE "service"]
    /\ UNCHANGED <<services, peers, pubPc, pubList, pubIndex, published>>
    /\ UNCHANGED nonGossipVars

\* handleMessage lines 60-63: the Service of descriptor i is upserted
ServiceUpsert(h, fault) ==
    /\ hPc[h] = "service"
    /\ LET model == hServices[h][hIndex[h]]
       IN  /\ hOps' = [hOps EXCEPT ![h] = Append(@, StoreCall("Service", model, fault))]
           /\ services' = IF fault THEN services ELSE upsertService(services, model)
    /\ hPc' = [hPc EXCEPT ![h] = IF fault THEN "rejected" ELSE "peer"]
    /\ UNCHANGED <<monitors, peers, hEvt, hServices, hIndex, pubPc, pubList,
                   pubIndex, published>>
    /\ UNCHANGED nonGossipVars

\* handleMessage lines 64 and 60: the Peer of the sender and descriptor i is
\* upserted, and the loop moves on
PeerUpsert(h, fault) ==
    /\ hPc[h] = "peer"
    /\ LET model == peerModel(hEvt[h].from, hServices[h][hIndex[h]])
       IN  /\ hOps' = [hOps EXCEPT ![h] = Append(@, StoreCall("Peer", model, fault))]
           /\ peers' = IF fault THEN peers ELSE upsertPeer(peers, model)
    /\ hIndex' = [hIndex EXCEPT ![h] = IF fault THEN @ ELSE @ + 1]
    /\ hPc' = [hPc EXCEPT ![h] = IF fault THEN "rejected"
                                 ELSE IF hIndex[h] < Len(hServices[h]) THEN "service"
                                 ELSE "done"]
    /\ UNCHANGED <<monitors, services, hEvt, hServices, pubPc, pubList, pubIndex,
                   published>>
    /\ UNCHANGED nonGossipVars

\* handleMessage lines 48 and 71-84, topic /ibp/healthCheck: the payload is
\* parsed, the row is built and created; a parse error, a payload of null
\* (record.serviceUrl throws) or a storage error rejects handleMessage
HealthCheckReceived(h, from, data, fault) ==
    /\ Starts(h)
    /\ hEvt' = [hEvt EXCEPT ![h] = [kind |-> "message", topic |-> "/ibp/healthCheck",
                                     from |-> from, data |-> data]]
    /\ IF ~parses(data)
       THEN /\ hPc' = [hPc EXCEPT ![h] = "rejected"]
            /\ UNCHANGED <<healthChecks, hOps>>
       ELSE IF JSONparse(data) = JsonNull
       THEN /\ hPc' = [hPc EXCEPT ![h] = "rejected"]
            /\ UNCHANGED <<healthChecks, hOps>>
       ELSE LET model == healthCheckModel(from, JSONparse(data))
            IN  /\ hOps' = [hOps EXCEPT ![h] =
                              Append(@, StoreCall("HealthCheck", model, fault))]
                /\ healthChecks' = IF fault THEN healthChecks
                                   ELSE createHealthCheck(healthChecks, model, now)
                /\ hPc' = [hPc EXCEPT ![h] = IF fault THEN "rejected" ELSE "done"]
    /\ UNCHANGED <<monitors, services, peers, hServices, hIndex, pubPc, pubList,
                   pubIndex, published>>
    /\ UNCHANGED <<enabled, now, queue, runPc, runCurrent, runPrevious, runOther,
                   runJobs, runs, queries>>
    /\ UNCHANGED <<execVars, probeVars>>

\* handleMessage lines 48 and 86-87: a message of any other topic is logged
OtherTopic(h, from, data) ==
    /\ Starts(h)
    /\ hEvt' = [hEvt EXCEPT ![h] = [kind |-> "message", topic |-> "/ibp/other",
                                     from |-> from, data |-> data]]
    /\ hPc' = [hPc EXCEPT ![h] = "done"]
    /\ UNCHANGED <<monitors, services, peers, hServices, hIndex, hOps, pubPc,
                   pubList, pubIndex, published>>
    /\ UNCHANGED nonGossipVars

\* publishServices line 92: the call, up to the first publish
CallPublishServices(list) ==
    /\ pubPc = "idle"
    /\ pubList' = list
    /\ pubIndex' = 1
    /\ pubPc' = IF list = <<>> THEN "done" ELSE "publishing"
    /\ UNCHANGED <<monitors, services, peers, hPc, hEvt, hServices, hIndex, hOps,
                   published>>
    /\ UNCHANGED nonGossipVars

\* publishServices lines 93-104: service i is published as the JSON of
\* [service]; an error of the publish rejects publishServices
PublishService(fault) ==
    /\ pubPc = "publishing"
    /\ published' = Append(published,
          [ topic |-> "/ibp/services",
            data |-> JSONstringify(JsonArray(<<pubList[pubIndex]>>)),
            ok |-> ~fault ])
    /\ pubIndex' = IF fault THEN pubIndex ELSE pubIndex + 1
    /\ pubPc' = IF fault THEN "rejected"
                ELSE IF pubIndex < Len(pubList) THEN "publishing" ELSE "done"
    /\ UNCHANGED <<monitors, services, peers, hPc, hEvt, hServices, hIndex, hOps,
                   pubList>>
    /\ UNCHANGED nonGossipVars

InitGossip ==
    /\ monitors = <<>>
    /\ services = <<>>
    /\ peers = <<>>
    /\ hPc = [h \in Handlers |-> "idle"]
    /\ hEvt = [h \in Handlers |-> NoEvent]
    /\ hServices = [h \in Handlers |-> <<>>]
    /\ hIndex = [h \in Handlers |-> 1]
    /\ hOps = [h \in Handlers |-> <<>>]
    /\ pubPc = "idle"
    /\ pubList = <<>>
    /\ pubIndex = 1
    /\ published = <<>>

(***************************************************************************)
(* The archive probe of performCheck (src/workers/f-check-service.js)      *)
(***************************************************************************)

\* the finalized block numbers a node reports, and the resolution of the
\* random draw: Math.random() returns draw / DrawSteps, in [0, 1)
MaxFinalized == 12
DrawSteps == 8

NoBlock == -1

\* performCheck line 104: Math.floor(Math.random() * (finalizedBlock / 2)) + 1
randBlockNumber(finalizedBlock, draw) ==
    ((draw * finalizedBlock) \div (2 * DrawSteps)) + 1

\* performCheck lines 100-105: the block number of the probe is computed
ArchiveProbe ==
    /\ probeBlock = NoBlock
    /\ probeBlock' = randBlockNumber(probeInput.finalizedBlock, probeInput.draw)
    /\ UNCHANGED probeInput
    /\ UNCHANGED nonProbeVars

InitProbe(finalizedBlocks, draws) ==
    /\ probeInput \in [finalizedBlock : finalizedBlocks, draw : draws]
    /\ probeBlock = NoBlock

(***************************************************************************)
(* Specifications of the check executor                                    *)
(***************************************************************************)

\* the state after the jobs in `active` have been handed to checkService
InitExec(active) ==
    /\ jobData \in [Jobs -> JobInputs]
    /\ \A j \in Jobs \ active : jobData[j] = CHOOSE d \in JobInputs : TRUE
    /\ pc = [j \in Jobs |-> IF j \in active THEN "queued" ELSE "idle"]
    /\ dnsTable = <<>>
    /\ retriesLeft = [j \in Jobs |-> RetryBudget]
    /\ invocations = [j \in Jobs |-> 0]
    /\ delays = [j \in Jobs |-> 0]
    /\ outcomes = [j \in Jobs |-> <<>>]
    /\ error = [j \in Jobs |-> NoError]
    /\ providerOpen = [j \in Jobs |-> 0]
    /\ apiOpen = [j \in Jobs |-> 0]
    /\ resolved = [j \in Jobs |-> NoAddress]
    /\ fnResult = [j \in Jobs |-> NoResult]
    /\ result = [j \in Jobs |-> NoResult]
    /\ dnsAdds = [j \in Jobs |-> 0]
    /\ dnsRemoves = [j \in Jobs |-> 0]

\* one check job, every fault possible
Init ==
    InitExec({"jobA"}) /\ InitAlerts({FALSE}) /\ InitGossip /\ InitProbe({0}, {0})

Next ==
    \E j \in Jobs :
        \/ \E err \in BOOLEAN : SetDNS(j, err)
        \/ BeginAttempt(j)
        \/ ConnectOk(j)
        \/ ConnectFail(j)
        \/ HandshakeOk(j)
        \/ \E name \in ErrorNames : HandshakeFail(j, name)
        \/ \E timing \in Timings, facts \in ChainFacts : GatherOk(j, timing, facts)
        \/ \E name \in ErrorNames, handlerRan \in BOOLEAN : GatherFail(j, name, handlerRan)
        \/ Teardown(j)
        \/ Catch(j)
        \/ Sleep(j)
        \/ \E err \in BOOLEAN : ClearDNS(j, err)

Spec == Init /\ [][Next]_vars

\* two check jobs running concurrently in one process; the only fault is a
\* transport that fails to connect
InitRace ==
    InitExec(Jobs) /\ InitAlerts({FALSE}) /\ InitGossip /\ InitProbe({0}, {0})

NextRace ==
    \E j \in Jobs :
        \/ SetDNS(j, FALSE)
        \/ BeginAttempt(j)
        \/ ConnectOk(j)
        \/ ConnectFail(j)
        \/ HandshakeOk(j)
        \/ \E facts \in ChainFacts : GatherOk(j, SLA, facts)
        \/ Teardown(j)
        \/ Catch(j)
        \/ Sleep(j)
        \/ ClearDNS(j, FALSE)

SpecRace == InitRace /\ [][NextRace]_vars

(***************************************************************************)
(* Specifications of the alerting engine                                   *)
(***************************************************************************)

Members == {"m1", "m2"}

\* record.syncState of a stored result: absent, or a best block at or one
\* above the drift threshold
SyncStates == { Undefined, [currentBlock |-> BlockDriftThreshold],
                [currentBlock |-> BlockDriftThreshold + 1] }

FinalizedBlocks == {0, 1}

Performances == {SLA, SLA + 1}

CheckRecords ==
    [ syncState : SyncStates, finalizedBlock : FinalizedBlocks,
      error : {Undefined}, performance : Performances ]

\* the record of an error result, with and without record.error, and a row
\* without record
ErrorRecords ==
    { Undefined,
      [ syncState |-> Undefined, finalizedBlock |-> Undefined,
        error |-> Undefined, performance |-> -1 ],
      [ syncState |-> Undefined, finalizedBlock |-> Undefined,
        error |-> [name |-> "Error", message |-> "connect"], performance |-> -1 ] }

\* the record of a check slower than the SLA, with a drift above the threshold
SlowRecord ==
    [ syncState |-> [currentBlock |-> BlockDriftThreshold + 1],
      finalizedBlock |-> 0, error |-> Undefined, performance |-> SLA + 1 ]

\* results of every status and payload
RuleInputs ==
    [ memberId : Members, serviceId : {"s1"}, status : {"success"},
      record : CheckRecords ]
    \cup [ memberId : Members, serviceId : {"s1"}, status : {"warning"},
           record : {SlowRecord} ]
    \cup [ memberId : Members, serviceId : {"s1"}, status : {"error"},
           record : ErrorRecords ]

StallRecords(syncStates) ==
    [ syncState : syncStates, finalizedBlock : {1}, error : {Undefined},
      performance : {SLA} ]

\* results that differ in member, status and best block only: the checked
\* member m1 with and without success, and another member m2
StallInputs ==
    [ memberId : {"m1"}, serviceId : {"s1"}, status : {"success"},
      record : StallRecords(SyncStates) ]
    \cup [ memberId : {"m1"}, serviceId : {"s1"}, status : {"warning"},
           record : StallRecords({[currentBlock |-> BlockDriftThreshold]}) ]
    \cup [ memberId : {"m2"}, serviceId : {"s1"}, status : {"success"},
           record : StallRecords({Undefined,
                                  [currentBlock |-> BlockDriftThreshold + 1]}) ]

\* the clock advances by a little more than the 60 seconds of the queries
TickSteps == {61 * 1000}

\* alerting enabled or disabled, and up to MaxRows rows
InitRules ==
    InitExec({}) /\ InitAlerts(BOOLEAN) /\ InitGossip /\ InitProbe({0}, {0})

NextRules ==
    \/ \E input \in RuleInputs : Persist(input, MaxRows)
    \/ \E d \in TickSteps : Tick(d)
    \/ \E i \in 1..MaxRows : RunDisabled(i)
    \/ \E i \in 1..MaxRows : RunQueryPrevious(i)
    \/ RunEvaluate

SpecRules == InitRules /\ [][NextRules]_vars

\* alerting enabled, and a history of up to MaxHistory rows
InitStall ==
    InitExec({}) /\ InitAlerts({TRUE}) /\ InitGossip /\ InitProbe({0}, {0})

NextStall ==
    \/ \E input \in StallInputs : Persist(input, MaxHistory)
    \/ \E d \in TickSteps : Tick(d)
    \/ \E i \in 1..MaxHistory : RunQueryPrevious(i)
    \/ RunEvaluate

SpecStall == InitStall /\ [][NextStall]_vars

(***************************************************************************)
(* Specification of the pipeline: check, persistence, alerting             *)
(***************************************************************************)

\* the result checkService returned for job j is persisted as a HealthCheck
\* row, one row per job
PersistResult(j) ==
    /\ pc[j] = "done"
    /\ Persist(result[j], Cardinality({k \in Jobs : pc[k] = "done"}))

\* one check job with every fault, alerting enabled; the creation of a row
\* triggers one call of run with it, rows being evaluated in order of creation
InitPipeline ==
    InitExec({"jobA"}) /\ InitAlerts({TRUE}) /\ InitGossip /\ InitProbe({0}, {0})

NextPipeline ==
    \/ Next
    \/ \E j \in Jobs : PersistResult(j)
    \/ RunQueryPrevious(runs + 1)
    \/ RunEvaluate

\* every continuation that is ready is run in the end
SpecPipeline == InitPipeline /\ [][NextPipeline]_vars /\ WF_vars(NextPipeline)

(***************************************************************************)
(* Specification of the gossip dispatcher                                  *)
(***************************************************************************)

\* no check job and no alerting; events and storage errors of every kind
InitGossipOnly ==
    InitExec({}) /\ InitAlerts({FALSE}) /\ InitGossip /\ InitProbe({0}, {0})

NextGossip ==
    \/ \E h \in Handlers, id \in PeerIds, fault \in BOOLEAN :
          HandleDiscovery(h, id, fault)
    \/ \E h \in Handlers, from \in PeerIds, data \in ServicesPayloads,
          fault \in BOOLEAN : ServicesReceived(h, from, data, fault)
    \/ \E h \in Handlers, fault \in BOOLEAN : ServiceUpsert(h, fault)
    \/ \E h \in Handlers, fault \in BOOLEAN : PeerUpsert(h, fault)
    \/ \E h \in Handlers, from \in PeerIds, data \in HealthCheckPayloads,
          fault \in BOOLEAN : HealthCheckReceived(h, from, data, fault)
    \/ \E h \in Handlers : OtherTopic(h, "P1", Malformed)

SpecGossip == InitGossipOnly /\ [][NextGossip]_vars

\* the lists publishServices is called with: up to MaxList services
MaxList == 3

PublishLists ==
    UNION { [1..n -> {DescriptorA, DescriptorB, DescriptorUrlOnly}] : n \in 0..MaxList }

NextPublish ==
    \/ \E list \in PublishLists : CallPublishServices(list)
    \/ \E fault \in BOOLEAN : PublishService(fault)

SpecPublish == InitGossipOnly /\ [][NextPublish]_vars

(***************************************************************************)
(* Specification of the archive probe                                      *)
(***************************************************************************)

\* every finalized block number up to MaxFinalized and every draw
InitArchive ==
    InitExec({}) /\ InitAlerts({FALSE}) /\ InitGossip
       /\ InitProbe(0..MaxFinalized, 0..(DrawSteps - 1))

NextArchive == ArchiveProbe

SpecArchive == InitArchive /\ [][NextArchive]_vars

(***************************************************************************)
(* Properties of the check executor                                        *)
(***************************************************************************)

\* retryFn has returned to checkService
Returned(j) == result[j] # NoResult

\* every call of fn(job) so far threw a transient error
AllTransient(j) ==
    /\ outcomes[j] # <<>>
    /\ \A i \in 1..Len(outcomes[j]) : outcomes[j][i] = "transient"

LastOutcome(j) == outcomes[j][Len(outcomes[j])]

\* checkService is between its setDNS and its clearDNS
InWindow(j) ==
    pc[j] \in {"attempt", "connecting", "handshake", "gathering", "teardown",
               "caught", "sleeping", "clearDNS"}

\* control is in retryFn or checkService, outside performCheck
OutsideAttempt(j) ==
    pc[j] \in {"attempt", "caught", "sleeping", "clearDNS", "done", "rejected"}

C2_ThirdAttemptSucceeds ==
    \A j \in Jobs :
        outcomes[j] = <<"transient", "transient", "ok">> =>
            /\ result[j] = fnResult[j]
            /\ result[j].status \in {"success", "warning"}
            /\ invocations[j] = 3
            /\ delays[j] = 2

\* C2 witness: checkService is done after two transient failures and a success
C2_Witness ==
    \E j \in Jobs :
        pc[j] = "done" /\ outcomes[j] = <<"transient", "transient", "ok">>

\* C3: an RpcError, at whichever attempt, ends the retries: it is the last
\* attempt, no delay and no further call follows it, and the result is the
\* error result of that error; a check that throws RpcError at once is called
\* once with no delay; a transient error is given up only when no retries
\* are left, and is otherwise followed by the delay of the next attempt
C3_RpcErrorNotRetried ==
    \A j \in Jobs :
        /\ \A i \in 1..Len(outcomes[j]) :
              outcomes[j][i] = "rpc" =>
                  /\ i = Len(outcomes[j])
                  /\ invocations[j] = i
                  /\ delays[j] = i - 1
                  /\ pc[j] \in {"caught", "clearDNS", "done", "rejected"}
                  /\ Returned(j) =>
                        /\ result[j].status = "error"
                        /\ result[j].record.error.name = "RpcError"
        /\ outcomes[j] = <<"rpc">> => (invocations[j] = 1 /\ delays[j] = 0)
        /\ (Returned(j) /\ outcomes[j] # <<>> /\ LastOutcome(j) = "transient")
              => retriesLeft[j] = 0
        /\ pc[j] = "sleeping" => (LastOutcome(j) = "transient" /\ retriesLeft[j] > 0)

\* C3 witness: an RpcError thrown by a retry has ended the check
C3_Witness ==
    \E j \in Jobs :
        /\ pc[j] = "done"
        /\ Len(outcomes[j]) >= 2
        /\ LastOutcome(j) = "rpc"
        /\ result[j].status = "error"

\* C4: on every path the override of a checkService invocation is installed
\* exactly once before the first attempt and removed exactly once after the
\* last one, and no invocation ends with its override installed
C4_OverridePaired ==
    \A j \in Jobs :
        /\ InWindow(j) /\ pc[j] # "clearDNS" =>
              (dnsAdds[j] = 1 /\ dnsRemoves[j] = 0)
        /\ pc[j] \in {"done", "rejected"} =>
              /\ dnsAdds[j] = 1
              /\ dnsRemoves[j] = 1
              /\ ~Installed(dnsTable, Domain(j), Ip(j))

\* C5: a connection is opened to an address that is not the job's own only
\* when another job of the same subdomain has installed its override, and the
\* address is then that job's member address (or, when both jobs have the
\* same address, the public one after the other job removed the overrides)
C5_ForeignAddressOnlyFromPeerJob ==
    \A j \in Jobs :
        (resolved[j] # NoAddress /\ resolved[j] # Ip(j)) =>
            \E k \in Jobs \ {j} :
                /\ jobData[k].subdomain = jobData[j].subdomain
                /\ dnsAdds[k] > 0
                /\ \/ resolved[j] = Ip(k)
                   \/ /\ Ip(k) = Ip(j)
                      /\ dnsRemoves[k] > 0
                      /\ resolved[j] = PublicAddress

\* C5 witness: two jobs of one subdomain and different member addresses are
\* both inside their override windows, and one has opened its connection to
\* the other's member address
C5_Witness ==
    \E j \in Jobs : \E k \in Jobs \ {j} :
        /\ jobData[j].subdomain = jobData[k].subdomain
        /\ Ip(j) # Ip(k)
        /\ InWindow(j) /\ InWindow(k)
        /\ pc[j] = "handshake"
        /\ resolved[j] = Ip(k)

\* C6: whenever an attempt of performCheck has ended, by a result or by an
\* error, the protocol clients and transports it opened are disconnected
C6_NoConnectionLeftOpen ==
    \A j \in Jobs :
        OutsideAttempt(j) => (providerOpen[j] = 0 /\ apiOpen[j] = 0)

(***************************************************************************)
(* Properties of the alerting engine                                       *)
(***************************************************************************)

\* a call of run has evaluated its rules
RunDone == runPc = "idle" /\ runCurrent # Null

\* the jobs of the given code that the last call of run added
JobsOf(code) == SelectSeq(runJobs, LAMBDA job : job.code = code)

\* the last call of run added exactly one job of the code, or none
Fired(code) == JobsOf(code) # <<>>

AtMostOnce(code) == Len(JobsOf(code)) <= 1

\* C7: run adds a code-101 job if and only if previous and otherMember both
\* exist, the three HealthChecks have status "success" and a defined
\* record.syncState, previous' best block equals current's and otherMember's
\* differs from it; missing history suppresses the job and run still completes
C7_Rule101 ==
    RunDone =>
        /\ AtMostOnce(ALERT_CODE_101)
        /\ Fired(ALERT_CODE_101) <=>
              /\ runPrevious # Null
              /\ runOther # Null
              /\ runCurrent.status = "success"
              /\ runPrevious.status = "success"
              /\ runOther.status = "success"
              /\ runCurrent.record.syncState # Undefined
              /\ runPrevious.record.syncState # Undefined
              /\ runOther.record.syncState # Undefined
              /\ runPrevious.record.syncState.currentBlock
                    = runCurrent.record.syncState.currentBlock
              /\ runOther.record.syncState.currentBlock
                    # runCurrent.record.syncState.currentBlock

\* C7 witness: run found an earlier HealthCheck of the member and one of
\* another member, and added the code-101 job
C7_Witness ==
    /\ RunDone
    /\ runPrevious # Null /\ runOther # Null
    /\ runPrevious.id # runCurrent.id
    /\ runOther.memberId # runCurrent.memberId
    /\ Fired(ALERT_CODE_101)

C9_Rule103 ==
    RunDone =>
        /\ AtMostOnce(ALERT_CODE_103)
        /\ \A i \in 1..Len(runJobs) :
              runJobs[i].code = ALERT_CODE_103 => runJobs[i].severity = "low"
        /\ Fired(ALERT_CODE_103) <=>
              /\ runCurrent.status = "success"
              /\ runCurrent.record.performance > SLA
        /\ runCurrent.status \in {"warning", "error"} => ~Fired(ALERT_CODE_103)

\* C9 witness: the code-103 job is added for a successful check slower than
\* the SLA
C9_Witness ==
    /\ RunDone
    /\ runCurrent.status = "success"
    /\ runCurrent.record.performance = SLA + 1
    /\ Fired(ALERT_CODE_103)

\* C10: run adds a code-100 job of severity high if and only if current has
\* status "error"; its message is record.error.message when record and
\* record.error are present and "Error message not available" otherwise, its
\* ids are those of current and its healthChecks list is [current]
C10_Rule100 ==
    RunDone =>
        /\ AtMostOnce(ALERT_CODE_100)
        /\ Fired(ALERT_CODE_100) <=> runCurrent.status = "error"
        /\ \A i \in 1..Len(runJobs) :
              runJobs[i].code = ALERT_CODE_100 =>
                  /\ runJobs[i].severity = "high"
                  /\ runJobs[i].message =
                        IF runCurrent.record = Undefined
                        THEN <<"Error message not available">>
                        ELSE IF runCurrent.record.error = Undefined
                             THEN <<"Error message not available">>
                             ELSE <<runCurrent.record.error.message>>
                  /\ runJobs[i].healthCheckId = runCurrent.id
                  /\ runJobs[i].memberId = runCurrent.memberId
                  /\ runJobs[i].serviceId = runCurrent.serviceId
                  /\ runJobs[i].healthChecks = <<runCurrent>>

\* C10 witness: the code-100 job carries the message of the error of current
C10_Witness ==
    /\ RunDone
    /\ runCurrent.status = "error"
    /\ runCurrent.record # Undefined
    /\ runCurrent.record.error # Undefined
    /\ Fired(ALERT_CODE_100)
    /\ Head(JobsOf(ALERT_CODE_100)).message = <<runCurrent.record.error.message>>

\* C11: with alerting disabled, no call of run makes a history query or adds
\* a job: the query count stays 0 and the queue empty whatever rows are stored
\* and whichever row run is called with, and a call of run changes neither
\* the queue nor the datastore's rows
C11_DisabledIsNoOp ==
    /\ [](~enabled => (queries = 0 /\ queue = <<>> /\ runPc = "idle"))
    /\ [][(~enabled /\ runs' # runs) =>
            /\ queries' = queries
            /\ queue' = queue
            /\ healthChecks' = healthChecks
            /\ runJobs' = runJobs]_vars

\* C11 witness: with alerting disabled, run has been called with a stored
\* result of status "error", which rule 100 would have reported
C11_Witness ==
    /\ ~enabled
    /\ runs > 0
    /\ \E i \in 1..Len(healthChecks) : healthChecks[i].status = "error"

(***************************************************************************)
(* Properties of the gossip dispatcher                                     *)
(***************************************************************************)

\* the step is handler h's call with a discovery event
DiscoveryStep(h) == hPc[h] = "idle" /\ hEvt'[h].kind = "peer:discovery"

\* C12: handleDiscovery makes one datastore call, the upsert of a Monitor
\* whose only field is the discovered peer's id, and completes normally
\* whether or not the call fails; a failed call leaves the catalog as it was,
\* and a successful one leaves every existing row as it was and adds at most
\* the row of the peer, with no services snapshot
C12_DiscoveryUpsert ==
    [][\A h \in Handlers :
         DiscoveryStep(h) =>
            /\ hPc'[h] = "done"
            /\ services' = services /\ peers' = peers
            /\ healthChecks' = healthChecks
            /\ hOps'[h] = << [ table |-> "Monitor",
                               model |-> [monitorId |-> hEvt'[h].id],
                               ok |-> hOps'[h][1].ok ] >>
            /\ SubSeq(monitors', 1, Len(monitors)) = monitors
            /\ IF hOps'[h][1].ok
               THEN /\ \E i \in 1..Len(monitors') :
                          monitors'[i].monitorId = hEvt'[h].id
                    /\ Len(monitors') > Len(monitors) =>
                          monitors' = Append(monitors,
                              [monitorId |-> hEvt'[h].id, services |-> Undefined])
               ELSE monitors' = monitors]_vars

\* C12 witness: the upsert of a discovery failed, the handler completed, and
\* the Monitor an earlier announcement of the same peer stored is in place
C12_Witness ==
    \E h \in Handlers :
        /\ hEvt[h].kind = "peer:discovery"
        /\ hPc[h] = "done"
        /\ ~hOps[h][1].ok
        /\ \E i \in 1..Len(monitors) :
              /\ monitors[i].monitorId = hEvt[h].id
              /\ monitors[i].services = JsonArray(<<DescriptorA>>)

\* handler h was called with a message of the topic
OnTopic(h, topic) == hEvt[h].kind = "message" /\ hEvt[h].topic = topic

\* the payload is JSON of a health-check result: an object with a serviceUrl
WellFormed(data) ==
    /\ parses(data)
    /\ JSONparse(data).json = "object"
    /\ JSONparse(data).fields.serviceUrl # Absent

\* C13: a /ibp/healthCheck message whose payload is not JSON, or is JSON that
\* is not a health-check result, never makes handleMessage reject and never
\* creates a HealthCheck row
C13_MalformedCaught ==
    \A h \in Handlers :
        (OnTopic(h, "/ibp/healthCheck") /\ ~WellFormed(hEvt[h].data)) =>
            /\ hPc[h] # "rejected"
            /\ \A i \in 1..Len(hOps[h]) :
                  ~(hOps[h][i].table = "HealthCheck" /\ hOps[h][i].ok)

\* the table holds a row with the fields of the model
Holds(table, model) ==
    \E i \in 1..Len(table) : \A f \in DOMAIN model : table[i][f] = model[f]

\* the datastore calls a /ibp/services message of the sender and descriptors
\* is to make, in order
ExpectedCalls(from, items) ==
    [ k \in 1..(1 + 2 * Len(items)) |->
        IF k = 1
        THEN [ table |-> "Monitor",
               model |-> [monitorId |-> from, services |-> JsonArray(items)],
               ok |-> TRUE ]
        ELSE IF k % 2 = 0
        THEN [ table |-> "Service", model |-> items[k \div 2], ok |-> TRUE ]
        ELSE [ table |-> "Peer",
               model |-> [peerId |-> from,
                          serviceUrl |-> items[(k - 1) \div 2].serviceUrl],
               ok |-> TRUE ] ]

\* the descriptors of the /ibp/services message handler h was called with
Announced(h) ==
    IF JSONparse(hEvt[h].data) = JsonNull THEN <<>>
    ELSE JSONparse(hEvt[h].data).items

\* C14: a handler of a /ibp/services message that meets no storage failure
\* makes, in this order, the upsert of the sender's Monitor with the decoded
\* array as its services, then for each descriptor in array order the upsert
\* of its Service and then of the Peer (sender, descriptor.serviceUrl), and
\* nothing else; while it runs its calls are a prefix of that list; and after
\* each call the table holds a row with the fields of the call's model
C14_ServicesAnnouncement ==
    /\ [](\A h \in Handlers :
            (OnTopic(h, "/ibp/services") /\ parses(hEvt[h].data)
                /\ \A i \in 1..Len(hOps[h]) : hOps[h][i].ok) =>
                LET expected == ExpectedCalls(hEvt[h].from, Announced(h))
                IN  /\ Len(hOps[h]) <= Len(expected)
                    /\ hOps[h] = SubSeq(expected, 1, Len(hOps[h]))
                    /\ hPc[h] = "done" <=> hOps[h] = expected)
    /\ [][\A h \in Handlers :
            (OnTopic(h, "/ibp/services")' /\ hOps'[h] # hOps[h]
                /\ hOps'[h][Len(hOps'[h])].ok) =>
                LET call == hOps'[h][Len(hOps'[h])]
                IN  Holds(IF call.table = "Monitor" THEN monitors'
                          ELSE IF call.table = "Service" THEN services'
                          ELSE peers',
                          call.model)]_vars

\* C14 witness: the announcement of two services by P1 has been handled, and
\* the Monitor with both, the two Services and the two Peers are stored
C14_Witness ==
    \E h \in Handlers :
        /\ OnTopic(h, "/ibp/services")
        /\ hEvt[h].from = "P1"
        /\ hEvt[h].data = JSONstringify(JsonArray(<<DescriptorA, DescriptorB>>))
        /\ hPc[h] = "done"
        /\ Len(hOps[h]) = 5
        /\ Holds(monitors, [monitorId |-> "P1",
                            services |-> JsonArray(<<DescriptorA, DescriptorB>>)])
        /\ Holds(services, DescriptorA) /\ Holds(services, DescriptorB)
        /\ Holds(peers, [peerId |-> "P1", serviceUrl |-> "wss://a"])
        /\ Holds(peers, [peerId |-> "P1", serviceUrl |-> "wss://b"])

\* the handlers of /ibp/healthCheck messages that have completed
HealthCheckHandled ==
    {h \in Handlers : OnTopic(h, "/ibp/healthCheck") /\ hPc[h] = "done"}

\* C15: the handling of a well-formed /ibp/healthCheck message that meets no
\* storage failure completes and appends exactly one row, leaving the
\* existing rows and the Monitor, Service and Peer tables as they were; the
\* row has source "gossip", the sender as monitorId, the payload's
\* serviceUrl, the payload's level or "info" without one, and the payload as
\* record; and the table holds as many rows as messages were handled
C15_HealthCheckAppended ==
    /\ [](Len(healthChecks) = Cardinality(HealthCheckHandled))
    /\ [][\A h \in Handlers :
            (hPc[h] = "idle" /\ OnTopic(h, "/ibp/healthCheck")'
                /\ WellFormed(hEvt'[h].data)) =>
                /\ hPc'[h] = "done" <=> hOps'[h][1].ok
                /\ Catalog' = Catalog
                /\ hPc'[h] = "done" =>
                      LET payload == JSONparse(hEvt'[h].data)
                          row == healthChecks'[Len(healthChecks')]
                      IN  /\ Len(healthChecks') = Len(healthChecks) + 1
                          /\ SubSeq(healthChecks', 1, Len(healthChecks)) = healthChecks
                          /\ row.source = "gossip"
                          /\ row.monitorId = hEvt'[h].from
                          /\ row.serviceUrl = payload.fields.serviceUrl
                          /\ row.level = IF payload.fields.level = Absent THEN "info"
                                         ELSE payload.fields.level
                          /\ row.record = payload]_vars

\* C15 witness: the same payload, without a level, was handled twice for the
\* same sender, and two rows of level "info" are stored
C15_Witness ==
    /\ \A h \in Handlers :
          /\ OnTopic(h, "/ibp/healthCheck")
          /\ hPc[h] = "done"
          /\ hEvt[h] = hEvt[1]
          /\ JSONparse(hEvt[h].data).fields.level = Absent
          /\ WellFormed(hEvt[h].data)
    /\ Len(healthChecks) = MaxHandlers
    /\ \A i \in 1..Len(healthChecks) : healthChecks[i].level = "info"

\* C16: when publishServices has ended, by returning or by an error, it has
\* made one publish per service of its list, in order, each to /ibp/services
\* with the JSON of the one-element array of the service: a publish that
\* fails does not keep the remaining services from being published
C16_EveryServicePublished ==
    pubPc \in {"done", "rejected"} =>
        /\ Len(published) = Len(pubList)
        /\ \A i \in 1..Len(published) :
              /\ published[i].topic = "/ibp/services"
              /\ published[i].data = JSONstringify(JsonArray(<<pubList[i]>>))

\* no two rows of a catalog table have the same key
NoDuplicates ==
    /\ \A i, j \in 1..Len(monitors) :
          monitors[i].monitorId = monitors[j].monitorId => i = j
    /\ \A i, j \in 1..Len(services) :
          services[i].serviceUrl = services[j].serviceUrl => i = j
    /\ \A i, j \in 1..Len(peers) :
          (peers[i].peerId = peers[j].peerId
              /\ peers[i].serviceUrl = peers[j].serviceUrl) => i = j

\* handler h was called with a discovery or a /ibp/services announcement
CatalogEvent(h) ==
    hEvt[h].kind = "peer:discovery" \/ OnTopic(h, "/ibp/services")

\* the catalog calls of handler h that succeeded
CatalogWrites(h) ==
    SelectSeq(hOps[h], LAMBDA call : call.ok /\ call.table # "HealthCheck")

\* handler g has handled its announcement in full
HandledOnce(g) ==
    /\ CatalogEvent(g)
    /\ hPc[g] = "done"
    /\ \A i \in 1..Len(hOps[g]) : hOps[g][i].ok

\* the rows that were in the table keep every field the model does not carry
KeepsOtherFields(before, after, model) ==
    /\ Len(after) >= Len(before)
    /\ \A i \in 1..Len(before) :
          \A f \in DOMAIN before[i] \ DOMAIN model : after[i][f] = before[i][f]

\* C17: the catalog tables never hold two rows of one key; once an
\* announcement (a discovery, or a /ibp/services message) has been handled in
\* full, every datastore call of a second handling of the same announcement
\* leaves the Monitor, Service and Peer tables exactly as they are; and no
\* upsert changes, in a row that existed, a field its model does not carry
C17_AnnouncementIdempotent ==
    /\ [](NoDuplicates)
    /\ [][\A g \in Handlers : \A h \in Handlers \ {g} :
            (HandledOnce(g) /\ hEvt'[h] = hEvt[g] /\ hOps'[h] # hOps[h]
                /\ \A k \in Handlers \ {g, h} : CatalogWrites(k) = <<>>) =>
                Catalog' = Catalog]_vars
    /\ [][\A h \in Handlers :
            hOps'[h] # hOps[h] =>
                LET call == hOps'[h][Len(hOps'[h])]
                IN  /\ KeepsOtherFields(monitors, monitors',
                          IF call.table = "Monitor" THEN call.model ELSE <<>>)
                    /\ KeepsOtherFields(services, services',
                          IF call.table = "Service" THEN call.model ELSE <<>>)
                    /\ KeepsOtherFields(peers, peers',
                          IF call.table = "Peer" THEN call.model ELSE <<>>)]_vars

\* C17 witness: the announcement of two services was handled twice in full,
\* and the catalog holds one Monitor, two Services and two Peers
C17_Witness ==
    \E g \in Handlers : \E h \in Handlers \ {g} :
        /\ HandledOnce(g) /\ HandledOnce(h)
        /\ hEvt[h] = hEvt[g]
        /\ OnTopic(g, "/ibp/services")
        /\ Announced(g) = <<DescriptorA, DescriptorB>>
        /\ Len(monitors) = 1 /\ Len(services) = 2 /\ Len(peers) = 2

(***************************************************************************)
(* Properties of the pipeline                                              *)
(***************************************************************************)

\* the code-100 jobs in the queue that carry the message
Alerts100(message) ==
    SelectSeq(queue, LAMBDA job : job.code = ALERT_CODE_100 /\ job.message = message)

C19_PreviousIsPrior ==
    (runCurrent # Null /\ runPrevious # Null) =>
        /\ runPrevious.id # runCurrent.id
        /\ runPrevious.memberId = runCurrent.memberId
        /\ runPrevious.serviceId = runCurrent.serviceId
        /\ runPrevious.status = "success"
        /\ runPrevious.createdAt < now - 60 * 1000
        /\ \A i \in 1..Len(healthChecks) :
              previousWhere(runCurrent, now, healthChecks[i]) =>
                  healthChecks[i].createdAt <= runPrevious.createdAt

\* C20: the block number of the archive probe lies in [1, finalizedBlock / 2]
\* for every finalized block number and every draw
C20_ProbeWithinHalf ==
    probeBlock # NoBlock =>
        /\ probeBlock >= 1
        /\ 2 * probeBlock <= probeInput.finalizedBlock

\* the descriptor whose Service or Peer upsert failed in handler h (0: none)
FailedIndex(h) ==
    IF hOps[h] # <<>> /\ ~hOps[h][Len(hOps[h])].ok THEN Len(hOps[h]) \div 2 ELSE 0

\* C21: once a handler of a /ibp/services message has ended after storing
\* the sender's Monitor, every descriptor of the stored snapshot other than
\* one whose upsert failed has its Service row and its Peer row
C21_SiblingsUpserted ==
    \A h \in Handlers :
        (OnTopic(h, "/ibp/services") /\ Ended(h) /\ parses(hEvt[h].data)
            /\ hOps[h] # <<>> /\ hOps[h][1].ok) =>
            \A i \in 1..Len(Announced(h)) :
                i # FailedIndex(h) =>
                    /\ Holds(services, [serviceUrl |-> Announced(h)[i].serviceUrl])
                    /\ Holds(peers, [peerId |-> hEvt[h].from,
                                     serviceUrl |-> Announced(h)[i].serviceUrl])

\* C22: a result performCheck returns has status "warning" exactly when its
\* measured time exceeds the SLA and status "success" otherwise, so a
\* success carries a performance of at most the SLA; no check queues a
\* code-103 job; and run called with the row of a warning result queues no
\* job at all
C22_SlowCheckRaisesNoAlert ==
    /\ \A j \in Jobs :
          fnResult[j] # NoResult =>
              /\ fnResult[j].status \in {"success", "warning"}
              /\ fnResult[j].status = "warning" <=> fnResult[j].record.performance > SLA
              /\ fnResult[j].status = "success" => fnResult[j].record.performance <= SLA
    /\ \A i \in 1..Len(queue) : queue[i].code # ALERT_CODE_103
    /\ (RunDone /\ runCurrent.status = "warning") => (runJobs = <<>> /\ queue = <<>>)

\* C22 witness: run has evaluated the row of a check slower than the SLA,
\* whose block drift is at the threshold, and the queue is empty
C22_Witness ==
    /\ RunDone
    /\ runCurrent.status = "warning"
    /\ runCurrent.record.performance = SLA + 1
    /\ blockDrift(runCurrent) >= BlockDriftThreshold
    /\ queue = <<>>

====
